---- MODULE Spec2Model ----
(***************************************************************************)
(* DupRadar: signed-webhook intake and the issue-triage pipeline.          *)
(*                                                                         *)
(* The repository holds several webhook handlers (the refactored           *)
(* webhook.Handler, the cmd/dup-radar webhookHandler, the handler closure  *)
(* of the monolithic main, and the handler.go skeleton).  One of them is   *)
(* deployed per run (variable handler).  Requests are served one handler   *)
(* invocation at a time; an accepted issues/opened event spawns a          *)
(* goroutine (a task) whose remote calls are modelled as call / return     *)
(* pairs that interleave freely with everything else.                      *)
(*                                                                         *)
(* Lengths are bytes.  Distances are in units of 1/10000.                  *)
(***************************************************************************)
EXTENDS Integers, Sequences, FiniteSets, TLC

\* ------------------------------------------------------------- bounds
MaxReqs == 2
MaxIssue == 1
MaxVec == 2
MaxCand == 3

\* -------------------------------------------------- program constants
maxSize == 5 * 1024 * 1024
Similarity == 2000
TopK == 3
StatusOK == 200
StatusAccepted == 202
StatusBadRequest == 400
StatusUnauthorized == 401
StatusMethodNotAllowed == 405

\* ---------------------------------------------------------- handlers
HandlerRefactored == "webhook.Handler.HandleWebhook"
HandlerCmd == "main.webhookHandler"
HandlerMono == "main.func1"
HandlerSkeleton == "webhook.HandleWebhook"
Handlers == {HandlerRefactored, HandlerCmd, HandlerMono, HandlerSkeleton}

\* ------------------------------------------------------- input space
Reqs == 1..MaxReqs
Methods == {"POST", "GET"}
Kinds == {"issues", "push", "bogus"}
KnownKinds == {"issues", "push"}
Repos == {"acme/app", "acme/lib"}
Secrets == {"", "s3cr3t"}
SenderKeys == {"s3cr3t", "forged"}

Malformed == [wf |-> FALSE, action |-> "none", repo |-> "none", number |-> 0]
IssueDoc(a, p, n) == [wf |-> TRUE, action |-> a, repo |-> p, number |-> n]

\* A body: a JSON document of jsonLen bytes followed by whitespace up to len bytes.
NoBody == [doc |-> Malformed, jsonLen |-> 0, len |-> -1]
SmallBody(d) == [doc |-> d, jsonLen |-> 2, len |-> 2]
PaddedBody(d) == [doc |-> d, jsonLen |-> 2, len |-> maxSize + 1]
HugeBody(d) == [doc |-> d, jsonLen |-> maxSize + 1, len |-> maxSize + 1]

Min(a, b) == IF a < b THEN a ELSE b

\* io.ReadAll(r.Body): the whole body.
ReadAll(body) == body

\* io.ReadAll(io.LimitReader(r.Body, n)): the first n bytes of the body.
LimitRead(body, n) == [body EXCEPT !.len = Min(body.len, n)]

\* HMAC-SHA256 as an injective keyed function, and its lower-case hex text.
Hmac(key, payload) == [key |-> key, over |-> payload]
EmptySig == [hex |-> FALSE, key |-> "", over |-> NoBody]
HexEncode(mac) == [hex |-> TRUE, key |-> mac.key, over |-> mac.over]

\* The X-Hub-Signature-256 header.
NoHeader == [present |-> FALSE, prefixed |-> FALSE, rest |-> EmptySig]
PrefixOnly == [present |-> TRUE, prefixed |-> TRUE, rest |-> EmptySig]
Signed(k, b) == [present |-> TRUE, prefixed |-> TRUE, rest |-> HexEncode(Hmac(k, b))]
Unprefixed(k, b) == [present |-> TRUE, prefixed |-> FALSE, rest |-> HexEncode(Hmac(k, b))]

\* strings.TrimPrefix(r.Header.Get("X-Hub-Signature-256"), "sha256=")
TrimPrefix(h) == IF h.present THEN h.rest ELSE EmptySig

\* hmac.Equal on the two texts.
\* Variant: the comparison looks at the encoding of the two strings only.
hmacEqual_HexOnly(a, b) == a.hex = b.hex
hmacEqual(a, b) == a = b

FirstBody == SmallBody(IssueDoc("opened", "acme/app", 1))
OtherBody(b) == IF b = FirstBody THEN SmallBody(Malformed) ELSE FirstBody

\* The signature headers a request for body b is tried with: none, the bare
\* prefix, and signatures under each sender key over the body as sent, over its
\* first maxSize bytes, and over another body.
Headers(b) ==
  {NoHeader, PrefixOnly}
    \cup {Signed(k, o) : k \in SenderKeys, o \in {b, LimitRead(b, maxSize), OtherBody(b)}}

CoreBodies ==
  {SmallBody(Malformed), FirstBody, SmallBody(IssueDoc("closed", "acme/app", 1))}
BigBodies ==
  UNION {{PaddedBody(IssueDoc("opened", "acme/lib", n)),
          HugeBody(IssueDoc("opened", "acme/lib", n))} : n \in 1..MaxIssue}

Request(m, k, b, h, e) == [method |-> m, kind |-> k, body |-> b, header |-> h, readErr |-> e]
NoRequest == Request("none", "none", NoBody, NoHeader, FALSE)

ReqInputs ==
  UNION {{Request("POST", "issues", b, h, FALSE) : h \in Headers(b)} : b \in CoreBodies}
    \cup UNION {{Request("POST", k, b, Signed(key, b), FALSE)
                   : k \in {"push", "bogus"}, key \in SenderKeys} : b \in CoreBodies}
    \cup {Request("GET", "issues", FirstBody, h, FALSE)
            : h \in {NoHeader, Signed("s3cr3t", FirstBody), Signed("forged", FirstBody)}}
    \cup UNION {{Request("POST", "issues", b, h, FALSE)
                   : h \in {NoHeader, Signed("s3cr3t", b),
                            Signed("s3cr3t", LimitRead(b, maxSize))}} : b \in BigBodies}
    \cup {Request("POST", "issues", FirstBody, h, TRUE)
            : h \in {NoHeader, Signed("s3cr3t", FirstBody)}}
    \cup {Request("POST", "issues", b, Unprefixed("s3cr3t", b), FALSE)
            : b \in {SmallBody(IssueDoc("closed", "acme/app", 1))}}

\* ------------------------------------------------------------ parsing
\* encoding/json on the payload: the document must be well formed and whole.
Decodable(payload) == payload.doc.wf /\ payload.jsonLen <= payload.len

NoEvent == [err |-> TRUE, type |-> "none", doc |-> Malformed]

\* Variant: the decoder takes whatever bytes it is given for a known kind.
ParseWebHook_Lenient(kind, payload) ==
  IF kind \notin KnownKinds THEN NoEvent
  ELSE [err |-> FALSE,
        type |-> IF kind = "issues" THEN "IssuesEvent" ELSE "PushEvent",
        doc |-> payload.doc]

\* github.ParseWebHook(github.WebHookType(r), payload)
ParseWebHook(kind, payload) ==
  IF kind \notin KnownKinds THEN NoEvent
  ELSE IF ~Decodable(payload) THEN NoEvent
  ELSE [err |-> FALSE,
        type |-> IF kind = "issues" THEN "IssuesEvent" ELSE "PushEvent",
        doc |-> payload.doc]

\* evt, ok := event.(*github.IssuesEvent); ok && evt.GetAction() == "opened"
IsOpenedIssue(ev) == ev.type = "IssuesEvent" /\ ev.doc.action = "opened"

\* ----------------------------------------------------- the handlers
\* What one handler invocation did: the status it answers, whether it read the
\* body, the bytes it hashed, the bytes it gave the parser, whether it spawned a
\* pipeline goroutine, and whether it handed the event to event processing.
Reply(st) ==
  [status |-> st, read |-> FALSE, hashed |-> NoBody, parsed |-> NoBody,
   spawn |-> FALSE, processed |-> FALSE]

\* Variant: the payload is parsed before the signature is looked at.
HandleWebhook_ParseFirst(rq, signingKey) ==
  IF rq.method # "POST" THEN Reply(StatusMethodNotAllowed)
  ELSE IF rq.readErr THEN [Reply(StatusBadRequest) EXCEPT !.read = TRUE]
  ELSE
    LET payload == LimitRead(rq.body, maxSize)
        sig == TrimPrefix(rq.header)
        expected == HexEncode(Hmac(signingKey, payload))
        event == ParseWebHook(rq.kind, payload)
    IN IF event.err
         THEN [Reply(StatusBadRequest) EXCEPT !.read = TRUE, !.parsed = payload]
       ELSE IF sig = EmptySig
         THEN [Reply(StatusUnauthorized) EXCEPT !.read = TRUE, !.parsed = payload]
       ELSE IF ~hmacEqual(sig, expected)
         THEN [Reply(StatusUnauthorized) EXCEPT
                 !.read = TRUE, !.hashed = payload, !.parsed = payload]
       ELSE [Reply(StatusAccepted) EXCEPT
               !.read = TRUE, !.hashed = payload, !.parsed = payload,
               !.spawn = IsOpenedIssue(event)]

\* Variant: the signature is checked only when one is supplied.
HandleWebhook_OptionalSig(rq, signingKey) ==
  IF rq.method # "POST" THEN Reply(StatusMethodNotAllowed)
  ELSE IF rq.readErr THEN [Reply(StatusBadRequest) EXCEPT !.read = TRUE]
  ELSE
    LET payload == LimitRead(rq.body, maxSize)
        sig == TrimPrefix(rq.header)
        expected == HexEncode(Hmac(signingKey, payload))
        event == ParseWebHook(rq.kind, payload)
    IN IF sig # EmptySig /\ ~hmacEqual(sig, expected)
         THEN [Reply(StatusUnauthorized) EXCEPT !.read = TRUE, !.hashed = payload]
       ELSE IF event.err
         THEN [Reply(StatusBadRequest) EXCEPT
                 !.read = TRUE, !.hashed = payload, !.parsed = payload]
       ELSE [Reply(StatusAccepted) EXCEPT
               !.read = TRUE, !.hashed = payload, !.parsed = payload,
               !.spawn = IsOpenedIssue(event)]

\* internal/webhook/webhook.go, Handler.HandleWebhook
HandleWebhook(rq, signingKey) ==
  IF rq.method # "POST" THEN Reply(StatusMethodNotAllowed)
  ELSE IF rq.readErr THEN [Reply(StatusBadRequest) EXCEPT !.read = TRUE]
  ELSE
    LET payload == LimitRead(rq.body, maxSize)
        sig == TrimPrefix(rq.header)
        expected == HexEncode(Hmac(signingKey, payload))
        event == ParseWebHook(rq.kind, payload)
    IN IF sig = EmptySig THEN [Reply(StatusUnauthorized) EXCEPT !.read = TRUE]
       ELSE IF ~hmacEqual(sig, expected)
         THEN [Reply(StatusUnauthorized) EXCEPT !.read = TRUE, !.hashed = payload]
       ELSE IF event.err
         THEN [Reply(StatusBadRequest) EXCEPT
                 !.read = TRUE, !.hashed = payload, !.parsed = payload]
       ELSE [Reply(StatusAccepted) EXCEPT
               !.read = TRUE, !.hashed = payload, !.parsed = payload,
               !.spawn = IsOpenedIssue(event)]

\* cmd/dup-radar/main.go, verifySignature: the verdict and the bytes hashed.
\* A read error is dropped (body, _ := io.ReadAll): what was read is hashed.
Partial(body) == [body EXCEPT !.len = 0]
\* Variant: a signature that is present is taken without the comparison.
verifySignature_NoCompare(rq, secretEnv) ==
  LET sig == TrimPrefix(rq.header)
      body == IF rq.readErr THEN Partial(rq.body) ELSE ReadAll(rq.body)
  IN IF sig = EmptySig \/ secretEnv = ""
       THEN [ok |-> FALSE, read |-> FALSE, body |-> NoBody]
       ELSE [ok |-> TRUE, read |-> TRUE, body |-> body]

verifySignature(rq, secretEnv) ==
  LET sig == TrimPrefix(rq.header)
      body == IF rq.readErr THEN Partial(rq.body) ELSE ReadAll(rq.body)
      expected == HexEncode(Hmac(secretEnv, body))
  IN IF sig = EmptySig \/ secretEnv = ""
       THEN [ok |-> FALSE, read |-> FALSE, body |-> NoBody]
       ELSE [ok |-> hmacEqual(sig, expected), read |-> TRUE, body |-> body]

\* cmd/dup-radar/main.go, webhookHandler
webhookHandler(rq, secretEnv) ==
  LET v == verifySignature(rq, secretEnv)
      event == ParseWebHook(rq.kind, v.body)
  IN IF ~v.ok
       THEN [Reply(StatusUnauthorized) EXCEPT !.read = v.read, !.hashed = v.body]
     ELSE IF event.err
       THEN [Reply(StatusBadRequest) EXCEPT
               !.read = TRUE, !.hashed = v.body, !.parsed = v.body]
     ELSE [Reply(StatusAccepted) EXCEPT
             !.read = TRUE, !.hashed = v.body, !.parsed = v.body,
             !.spawn = IsOpenedIssue(event)]

\* the handler closure of the monolithic main (http.HandleFunc(cfg.Server.Path, ...))
mainHandler(rq, sigKey) ==
  IF rq.readErr THEN [Reply(StatusBadRequest) EXCEPT !.read = TRUE]
  ELSE
    LET payload == ReadAll(rq.body)
        sig == TrimPrefix(rq.header)
        expected == HexEncode(Hmac(sigKey, payload))
        event == ParseWebHook(rq.kind, payload)
    IN IF ~hmacEqual(sig, expected)
         THEN [Reply(StatusUnauthorized) EXCEPT !.read = TRUE, !.hashed = payload]
       ELSE IF event.err
         THEN [Reply(StatusBadRequest) EXCEPT
                 !.read = TRUE, !.hashed = payload, !.parsed = payload]
       ELSE [Reply(StatusAccepted) EXCEPT
               !.read = TRUE, !.hashed = payload, !.parsed = payload,
               !.spawn = IsOpenedIssue(event)]

\* internal/webhook/handler.go, validateWebhook: a stub that accepts everything.
validateWebhook(payload) == TRUE

\* internal/webhook/handler.go, HandleWebhook
skeletonHandleWebhook(rq) ==
  LET payload == ReadAll(rq.body)
  IN IF rq.readErr \/ ~Decodable(payload)
       THEN [Reply(StatusBadRequest) EXCEPT !.read = TRUE, !.parsed = payload]
     ELSE IF ~validateWebhook(payload)
       THEN [Reply(403) EXCEPT !.read = TRUE, !.parsed = payload]
     ELSE [Reply(StatusOK) EXCEPT
             !.read = TRUE, !.parsed = payload, !.processed = TRUE]

Handle(h, rq, key) ==
  CASE h = HandlerRefactored -> HandleWebhook(rq, key)
    [] h = HandlerCmd -> webhookHandler(rq, key)
    [] h = HandlerMono -> mainHandler(rq, key)
    [] h = HandlerSkeleton -> skeletonHandleWebhook(rq)

\* The monolithic main stops at start-up when the secret is empty (log.Fatal);
\* the other entry points serve with whatever secret they are given.
Serving(h, key) == ~(h = HandlerMono /\ key = "")

\* ------------------------------------------------- embedding provider
\* Vectors: 0 is a vector with no values, 1..MaxVec are points of the space.
Vectors == 0..MaxVec
EmbedResponse(t, st, js, preds) ==
  [transport |-> t, status |-> st, json |-> js, predictions |-> preds]
NoResponse == EmbedResponse(FALSE, -1, FALSE, <<>>)
EmbedResponses ==
  {EmbedResponse(FALSE, 0, FALSE, <<>>),
   EmbedResponse(TRUE, 500, FALSE, <<>>),
   EmbedResponse(TRUE, 200, FALSE, <<>>),
   EmbedResponse(TRUE, 200, TRUE, <<>>)}
    \cup {EmbedResponse(TRUE, 200, TRUE, <<v>>) : v \in Vectors}

\* Variant: an empty prediction list is not looked for; the zero vector comes back.
CreateEmbedding_NoEmptyCheck(resp) ==
  IF ~resp.transport THEN [err |-> TRUE, vec |-> 0]
  ELSE IF resp.status # 200 THEN [err |-> TRUE, vec |-> 0]
  ELSE IF ~resp.json THEN [err |-> TRUE, vec |-> 0]
  ELSE [err |-> FALSE,
        vec |-> IF Len(resp.predictions) = 0 THEN 0 ELSE resp.predictions[1]]

\* internal/embedding/embedding.go, CreateEmbeddingWithOptions / CreateEmbedding
CreateEmbedding(resp) ==
  IF ~resp.transport THEN [err |-> TRUE, vec |-> 0]
  ELSE IF resp.status # 200 THEN [err |-> TRUE, vec |-> 0]
  ELSE IF ~resp.json THEN [err |-> TRUE, vec |-> 0]
  ELSE IF Len(resp.predictions) = 0 THEN [err |-> TRUE, vec |-> 0]
  ELSE [err |-> FALSE, vec |-> resp.predictions[1]]

\* ------------------------------------------------------- vector store
\* Variant: the row is built without the repository it was given.
Row_NoRepo(doc, repoFull, vec) == [repo |-> "", issue_id |-> doc.number, embedding |-> vec]

Row(doc, repoFull, vec) == [repo |-> repoFull, issue_id |-> doc.number, embedding |-> vec]

Abs(x) == IF x < 0 THEN -x ELSE x
\* ML.DISTANCE(embedding, @query_vec, 'COSINE') on the abstract points.
Distance(v, w) == 2500 * Abs(v - w)
\* The distance is defined when both vectors have values.
Comparable(rows, vec) == vec # 0 /\ \A i \in 1..Len(rows) : rows[i].embedding # 0

\* Variant: the query has no LIMIT; every row is returned.
Rankings_NoLimit(rows, vec, k) ==
  LET n == Len(rows)
      d(i) == Distance(rows[i].embedding, vec)
  IN {s \in [1..n -> 1..n] :
        /\ \A i, j \in 1..n : i # j => s[i] # s[j]
        /\ \A i, j \in 1..n : i < j => d(s[i]) <= d(s[j])}

\* ORDER BY dist LIMIT k: the rankings the store may return (ties in any order).
Rankings(rows, vec, k) ==
  LET n == Min(k, Len(rows))
      d(i) == Distance(rows[i].embedding, vec)
  IN {s \in [1..n -> 1..Len(rows)] :
        /\ \A i, j \in 1..n : i # j => s[i] # s[j]
        /\ \A i, j \in 1..n : i < j => d(s[i]) <= d(s[j])
        /\ \A i \in 1..n : \A x \in 1..Len(rows) :
             (\A j \in 1..n : s[j] # x) => d(s[i]) <= d(x)}

SearchOutcomes == {"ok", "query_err", "row_err"}

\* Variant: a failure while reading rows hands back the rows read so far.
SearchSimilarIssues_KeepsRows(rows, vec, rank, outcome) ==
  IF outcome = "query_err" THEN [ids |-> <<>>, dists |-> <<>>, err |-> TRUE]
  ELSE [ids |-> [i \in 1..Len(rank) |-> rows[rank[i]].issue_id],
        dists |-> [i \in 1..Len(rank) |-> Distance(rows[rank[i]].embedding, vec)],
        err |-> outcome = "row_err"]

\* internal/storage/bigquery.go, BQClient.SearchSimilarIssues: rank is the order
\* the iterator yields the rows in.
SearchSimilarIssues(rows, vec, rank, outcome) ==
  IF outcome = "query_err" THEN [ids |-> <<>>, dists |-> <<>>, err |-> TRUE]
  ELSE IF outcome = "row_err" THEN [ids |-> <<>>, dists |-> <<>>, err |-> TRUE]
  ELSE [ids |-> [i \in 1..Len(rank) |-> rows[rank[i]].issue_id],
        dists |-> [i \in 1..Len(rank) |-> Distance(rows[rank[i]].embedding, vec)],
        err |-> FALSE]

\* Variant: an upsert; the row of an issue that is already stored is replaced.
InsertIssueVector_Upsert(rows, doc, repoFull, vec) ==
  IF \E i \in 1..Len(rows) : rows[i].repo = repoFull /\ rows[i].issue_id = doc.number
    THEN [i \in 1..Len(rows) |->
            IF rows[i].repo = repoFull /\ rows[i].issue_id = doc.number
              THEN [repo |-> repoFull, issue_id |-> doc.number, embedding |-> vec]
              ELSE rows[i]]
    ELSE Append(rows, [repo |-> repoFull, issue_id |-> doc.number, embedding |-> vec])

\* internal/storage/bigquery.go, BQClient.InsertIssueVector
InsertIssueVector(rows, doc, repoFull, vec) == Append(rows, Row(doc, repoFull, vec))

\* ------------------------------------------------------------ decider
NoComment == [text |-> FALSE, listed |-> <<>>]
\* fmt "%.3f" of a distance: thousandths, rounded.
Format3(d) == (d + 5) \div 10

\* Variant: candidates over the threshold are skipped and the listing goes on.
RECURSIVE ListFrom_Filter(_, _, _, _)
ListFrom_Filter(threshold, ids, dists, i) ==
  IF i > Len(ids) \/ i > Len(dists) THEN <<>>
  ELSE (IF dists[i] > threshold THEN <<>>
        ELSE <<[id |-> ids[i], shown |-> (dists[i] + 5) \div 10]>>)
         \o ListFrom_Filter(threshold, ids, dists, i + 1)

\* Variant: the listing stops at a candidate whose distance equals the threshold.
RECURSIVE ListFrom_Strict(_, _, _, _)
ListFrom_Strict(threshold, ids, dists, i) ==
  IF i > Len(ids) \/ i > Len(dists) \/ dists[i] >= threshold THEN <<>>
  ELSE <<[id |-> ids[i], shown |-> (dists[i] + 5) \div 10]>>
         \o ListFrom_Strict(threshold, ids, dists, i + 1)

RECURSIVE ListFrom(_, _, _, _)
ListFrom(threshold, ids, dists, i) ==
  IF i > Len(ids) \/ i > Len(dists) \/ dists[i] > threshold THEN <<>>
  ELSE <<[id |-> ids[i], shown |-> Format3(dists[i])]>>
         \o ListFrom(threshold, ids, dists, i + 1)

\* Variant: a first candidate exactly at the threshold is turned away.
buildComment_Strict(threshold, ids, dists) ==
  IF Len(ids) = 0 \/ (Len(dists) > 0 /\ dists[1] >= threshold) THEN NoComment
  ELSE [text |-> TRUE, listed |-> ListFrom(threshold, ids, dists, 1)]

\* buildComment(cfg, ids, dists) of the monolithic main
buildComment(threshold, ids, dists) ==
  IF Len(ids) = 0 \/ (Len(dists) > 0 /\ dists[1] > threshold) THEN NoComment
  ELSE [text |-> TRUE, listed |-> ListFrom(threshold, ids, dists, 1)]

\* buildComment of the monolithic main with debug logging: the log line of the
\* break branch reads dists[i], also when i is past the end of dists.
LoggedPanics(threshold, ids, dists) ==
  /\ Len(ids) > Len(dists)
  /\ \A i \in 1..Len(dists) : dists[i] <= threshold
buildCommentLogged(threshold, ids, dists) ==
  IF Len(ids) = 0 THEN [panic |-> FALSE, out |-> NoComment]
  ELSE IF Len(dists) > 0 /\ dists[1] > threshold THEN [panic |-> FALSE, out |-> NoComment]
  ELSE IF LoggedPanics(threshold, ids, dists) THEN [panic |-> TRUE, out |-> NoComment]
  ELSE [panic |-> FALSE,
        out |-> [text |-> TRUE, listed |-> ListFrom(threshold, ids, dists, 1)]]

\* The deciders of the repository, by the file that holds them.
DeciderPlain == "buildComment"
DeciderLogged == "buildComment (logging)"
Deciders == {DeciderPlain, DeciderLogged}
Decide(variant, threshold, ids, dists) ==
  IF variant = DeciderLogged THEN buildCommentLogged(threshold, ids, dists)
  ELSE [panic |-> FALSE, out |-> buildComment(threshold, ids, dists)]

\* cmd/dup-radar/main.go, dummyEmbed / dummySearch / buildComment(ids): the MVP stubs
dummyEmbed == 1
dummySearch == <<1, 42>>
stubBuildComment(ids) ==
  [text |-> TRUE, listed |-> [i \in 1..Len(ids) |-> [id |-> ids[i], shown |-> -1]]]

\* -------------------------------------------------------------- state
VARIABLES
  handler,   \* the handler this run deploys
  secret,    \* GITHUB_WEBHOOK_SECRET
  req,       \* per request: the input, the handler's position and what it did
  task,      \* per request: the pipeline goroutine spawned for it, if any
  store,     \* the rows of the vector table, in insertion order
  probe,     \* the last application of a pure function (the function specifications)
  closed     \* per request: "open", or where its task stood when the request ended

vars == <<handler, secret, req, task, store, probe, closed>>

ZeroCalls == [embed |-> 0, search |-> 0, comment |-> 0, persist |-> 0]
\* The issue a comment call is addressed to: owner and name of the repository
\* (together its full name) and the issue number, all taken from the event.
NoTarget == [repo |-> "none", number |-> 0]
\* Variant: the comment goes to the repository the service was set up for.
CommentTarget_HomeRepo(doc) == [repo |-> "acme/app", number |-> doc.number]

CommentTarget(doc) == [repo |-> doc.repo, number |-> doc.number]

NoTask ==
  [pc |-> "none", fn |-> "none", evt |-> Malformed, vec |-> 0, ids |-> <<>>,
   dists |-> <<>>, msg |-> NoComment, resp |-> NoResponse, searchErr |-> FALSE,
   posted |-> FALSE, calls |-> ZeroCalls, inflight |-> {}, ctxErr |-> FALSE, target |-> NoTarget]
IdleReq == [pc |-> "idle", in |-> NoRequest, status |-> 0]

NoProbe == [fn |-> "none"]

Init ==
  /\ handler \in Handlers
  /\ secret \in Secrets
  /\ req = [r \in Reqs |-> IdleReq]
  /\ task = [r \in Reqs |-> NoTask]
  /\ store = <<>>
  /\ probe = NoProbe
  /\ closed = [r \in Reqs |-> "open"]

\* Variant: the task is given the context of the request.
TaskContext_Request(h) == "request"

\* The context the handler hands to the task: context.Background() in all of them.
TaskContext(h) == "background"

\* ctx.Done() of the task of r is closed: its remote calls return ctx.Err().
ContextDone(r) == TaskContext(handler) = "request" /\ closed[r] # "open"

\* The pipeline function the deployed handler spawns with "go".
PipelineOf(h) == IF h = HandlerCmd THEN "processIssue" ELSE "handleIssue"

\* Variant: a bounded pool; the task is not started while another is running.
Serve_Bounded(r, rq) ==
  /\ Serving(handler, secret)
  /\ req[r].pc = "idle"
  /\ \A q \in Reqs : q < r => req[q].pc # "idle"
  /\ LET res == Handle(handler, rq, secret)
         event == ParseWebHook(rq.kind, res.parsed)
         free == \A q \in Reqs : task[q].pc \in {"none", "done", "error_embed", "error_persist"}
     IN /\ req' = [req EXCEPT ![r] =
                     [pc |-> IF res.status = StatusAccepted THEN "respond" ELSE "done",
                      in |-> rq,
                      status |-> IF res.status = StatusAccepted THEN 0 ELSE res.status]]
        /\ task' = IF res.spawn /\ free
                     THEN [task EXCEPT ![r] =
                             [NoTask EXCEPT !.pc = "start", !.fn = PipelineOf(handler),
                                            !.evt = event.doc]]
                     ELSE task
  /\ UNCHANGED <<handler, secret, store, probe, closed>>

\* One handler invocation, up to and including the "go" statement.  Every
\* rejection writes its status at once; the accepted path still has to reach
\* w.WriteHeader(http.StatusAccepted).
Serve(r, rq) ==
  /\ Serving(handler, secret)
  /\ req[r].pc = "idle"
  /\ \A q \in Reqs : q < r => req[q].pc # "idle"
  /\ LET res == Handle(handler, rq, secret)
         event == ParseWebHook(rq.kind, res.parsed)
     IN /\ req' = [req EXCEPT ![r] =
                     [pc |-> IF res.status = StatusAccepted THEN "respond" ELSE "done",
                      in |-> rq,
                      status |-> IF res.status = StatusAccepted THEN 0 ELSE res.status]]
        /\ task' = IF res.spawn
                     THEN [task EXCEPT ![r] =
                             [NoTask EXCEPT !.pc = "start", !.fn = PipelineOf(handler),
                                            !.evt = event.doc]]
                     ELSE task
  /\ UNCHANGED <<handler, secret, store, probe, closed>>

\* Variant: the answer reports a pipeline that has already failed.
WriteHeader_ReportsPipeline(r) ==
  /\ req[r].pc = "respond"
  /\ req' = [req EXCEPT ![r].pc = "done",
                        ![r].status = IF task[r].pc \in {"error_embed", "error_persist"}
                                        THEN 500 ELSE StatusAccepted]
  /\ UNCHANGED <<handler, secret, task, store, probe, closed>>

\* Variant: the handler waits for the goroutine before it answers.
WriteHeader_Joins(r) ==
  /\ req[r].pc = "respond"
  /\ task[r].pc \in {"none", "done", "error_embed", "error_persist"}
  /\ req' = [req EXCEPT ![r].pc = "done", ![r].status = StatusAccepted]
  /\ UNCHANGED <<handler, secret, task, store, probe, closed>>

\* w.WriteHeader(http.StatusAccepted)
WriteHeader(r) ==
  /\ req[r].pc = "respond"
  /\ req' = [req EXCEPT ![r].pc = "done", ![r].status = StatusAccepted]
  /\ UNCHANGED <<handler, secret, task, store, probe, closed>>

\* handleIssue, step 1: the embedding request leaves.
EmbedCall(r) ==
  /\ task[r].pc = "start"
  /\ task[r].fn = "handleIssue"
  /\ task' = [task EXCEPT ![r].pc = "embedding", ![r].calls.embed = @ + 1,
                          ![r].inflight = @ \cup {"embed"}]
  /\ UNCHANGED <<handler, secret, req, store, probe, closed>>

\* handleIssue, step 1: the provider answers; an error ends the run.
EmbedReturn(r, resp) ==
  /\ task[r].pc = "embedding"
  /\ LET e == IF ContextDone(r) THEN [err |-> TRUE, vec |-> 0] ELSE CreateEmbedding(resp)
     IN task' = IF e.err
                  THEN [task EXCEPT ![r].pc = "error_embed", ![r].resp = resp,
                                    ![r].inflight = @ \ {"embed"},
                                    ![r].ctxErr = @ \/ ContextDone(r)]
                  ELSE [task EXCEPT ![r].pc = "search", ![r].resp = resp,
                                    ![r].vec = e.vec, ![r].inflight = @ \ {"embed"}]
  /\ UNCHANGED <<handler, secret, req, store, probe, closed>>

\* handleIssue, step 2: the query leaves.
SearchCall(r) ==
  /\ task[r].pc = "search"
  /\ task' = [task EXCEPT ![r].pc = "searching", ![r].calls.search = @ + 1,
                          ![r].inflight = @ \cup {"search"}]
  /\ UNCHANGED <<handler, secret, req, store, probe, closed>>

\* Variant: the row iterator does not end on an empty result; it waits for a row.
SearchReturn_WaitsForRow(r, outcome, rank) ==
  /\ task[r].pc = "searching"
  /\ Len(store) > 0
  /\ outcome = "ok" => Comparable(store, task[r].vec)
  /\ LET res == SearchSimilarIssues(store, task[r].vec, rank,
                                    IF ContextDone(r) THEN "query_err" ELSE outcome)
         msg == buildComment(Similarity, res.ids, res.dists)
     IN task' = [task EXCEPT ![r].pc = IF msg # NoComment THEN "comment" ELSE "persist",
                             ![r].ids = res.ids, ![r].dists = res.dists,
                             ![r].searchErr = res.err, ![r].msg = msg,
                             ![r].inflight = @ \ {"search"},
                             ![r].ctxErr = @ \/ ContextDone(r)]
  /\ UNCHANGED <<handler, secret, req, store, probe, closed>>

\* Variant: the query vector is kept in a buffer all tasks share, which still
\* holds the vector of the first task.
SearchReturn_SharedBuffer(r, outcome, rank) ==
  /\ task[r].pc = "searching"
  /\ outcome = "ok" => Comparable(store, task[r].vec) \/ Len(store) = 0
  /\ LET shared == IF task[1].vec # 0 THEN task[1].vec ELSE task[r].vec
         res == SearchSimilarIssues(store, shared, rank,
                                    IF ContextDone(r) THEN "query_err" ELSE outcome)
         msg == buildComment(Similarity, res.ids, res.dists)
     IN task' = [task EXCEPT ![r].pc = IF msg # NoComment THEN "comment" ELSE "persist",
                             ![r].ids = res.ids, ![r].dists = res.dists,
                             ![r].searchErr = res.err, ![r].msg = msg,
                             ![r].inflight = @ \ {"search"},
                             ![r].ctxErr = @ \/ ContextDone(r)]
  /\ UNCHANGED <<handler, secret, req, store, probe, closed>>

\* handleIssue, steps 2 and 3: the query answers, the decider runs.
SearchReturn(r, outcome, rank) ==
  /\ task[r].pc = "searching"
  /\ outcome = "ok" => Comparable(store, task[r].vec) \/ Len(store) = 0
  /\ LET res == SearchSimilarIssues(store, task[r].vec, rank,
                                    IF ContextDone(r) THEN "query_err" ELSE outcome)
         msg == buildComment(Similarity, res.ids, res.dists)
     IN task' = [task EXCEPT ![r].pc = IF msg # NoComment THEN "comment" ELSE "persist",
                             ![r].ids = res.ids, ![r].dists = res.dists,
                             ![r].searchErr = res.err, ![r].msg = msg,
                             ![r].inflight = @ \ {"search"},
                             ![r].ctxErr = @ \/ ContextDone(r)]
  /\ UNCHANGED <<handler, secret, req, store, probe, closed>>

\* processIssue: the stubbed embedding and search, and the comment text.
ProcessIssueLocal(r) ==
  /\ task[r].pc = "start"
  /\ task[r].fn = "processIssue"
  /\ task' = [task EXCEPT ![r].pc = "comment", ![r].vec = dummyEmbed,
                          ![r].ids = dummySearch,
                          ![r].msg = stubBuildComment(dummySearch)]
  /\ UNCHANGED <<handler, secret, req, store, probe, closed>>

\* Variant: the comment is posted without waiting for the call to return.
CommentCall_Async(r) ==
  /\ task[r].pc = "comment"
  /\ task' = [task EXCEPT ![r].pc = IF task[r].fn = "processIssue" THEN "done" ELSE "persist",
                          ![r].calls.comment = @ + 1,
                          ![r].inflight = @ \cup {"comment"},
                          ![r].target = CommentTarget(task[r].evt)]
  /\ UNCHANGED <<handler, secret, req, store, probe, closed>>

\* step 3: the comment request leaves.
CommentCall(r) ==
  /\ task[r].pc = "comment"
  /\ task' = [task EXCEPT ![r].pc = "commenting", ![r].calls.comment = @ + 1,
                          ![r].inflight = @ \cup {"comment"},
                          ![r].target = CommentTarget(task[r].evt)]
  /\ UNCHANGED <<handler, secret, req, store, probe, closed>>

\* Variant: a failed posting is tried again.
CommentReturn_Retry(r, ok) ==
  /\ task[r].pc = "commenting"
  /\ task' = [task EXCEPT ![r].pc = IF ~ok THEN "comment"
                                      ELSE IF task[r].fn = "processIssue" THEN "done"
                                      ELSE "persist",
                          ![r].posted = ok, ![r].inflight = @ \ {"comment"}]
  /\ UNCHANGED <<handler, secret, req, store, probe, closed>>

\* Variant: a failed posting ends the run.
CommentReturn_StopsOnFailure(r, ok) ==
  /\ task[r].pc = "commenting"
  /\ task' = [task EXCEPT ![r].pc = IF ok /\ task[r].fn # "processIssue"
                                      THEN "persist" ELSE "done",
                          ![r].posted = ok, ![r].inflight = @ \ {"comment"}]
  /\ UNCHANGED <<handler, secret, req, store, probe, closed>>

\* step 3: the comment call returns; a failure is logged and the run goes on.
\* processIssue ends here: its insert is a stub.
CommentReturn(r, ok) ==
  /\ task[r].pc = "commenting"
  /\ task' = [task EXCEPT ![r].pc = IF task[r].fn = "processIssue" THEN "done" ELSE "persist",
                          ![r].posted = ok /\ ~ContextDone(r),
                          ![r].inflight = @ \ {"comment"},
                          ![r].ctxErr = @ \/ ContextDone(r)]
  /\ UNCHANGED <<handler, secret, req, store, probe, closed>>

\* handleIssue, step 4: the insert leaves.
PersistCall(r) ==
  /\ task[r].pc = "persist"
  /\ task' = [task EXCEPT ![r].pc = "persisting", ![r].calls.persist = @ + 1,
                          ![r].inflight = @ \cup {"persist"}]
  /\ UNCHANGED <<handler, secret, req, store, probe, closed>>

\* Variant: a failed insert is tried again.
PersistReturn_Retry(r, ok) ==
  /\ task[r].pc = "persisting"
  /\ task' = [task EXCEPT ![r].pc = IF ok /\ ~ContextDone(r) THEN "done" ELSE "persist",
                          ![r].inflight = @ \ {"persist"},
                          ![r].ctxErr = @ \/ ContextDone(r)]
  /\ store' = IF ok /\ ~ContextDone(r)
                THEN InsertIssueVector(store, task[r].evt, task[r].evt.repo, task[r].vec)
                ELSE store
  /\ UNCHANGED <<handler, secret, req, probe, closed>>

\* handleIssue, step 4: the insert returns.
PersistReturn(r, ok) ==
  /\ task[r].pc = "persisting"
  /\ task' = [task EXCEPT ![r].pc = IF ok /\ ~ContextDone(r) THEN "done" ELSE "error_persist",
                          ![r].inflight = @ \ {"persist"},
                          ![r].ctxErr = @ \/ ContextDone(r)]
  /\ store' = IF ok /\ ~ContextDone(r)
                THEN InsertIssueVector(store, task[r].evt, task[r].evt.repo, task[r].vec)
                ELSE store
  /\ UNCHANGED <<handler, secret, req, probe, closed>>

Next ==
  \/ \E r \in Reqs, rq \in ReqInputs : Serve(r, rq)
  \/ \E r \in Reqs : WriteHeader(r)
  \/ \E r \in Reqs : EmbedCall(r)
  \/ \E r \in Reqs, resp \in EmbedResponses : EmbedReturn(r, resp)
  \/ \E r \in Reqs : SearchCall(r)
  \/ \E r \in Reqs, outcome \in SearchOutcomes :
       \E rank \in Rankings(store, task[r].vec, TopK) : SearchReturn(r, outcome, rank)
  \/ \E r \in Reqs : ProcessIssueLocal(r)
  \/ \E r \in Reqs : CommentCall(r)
  \/ \E r \in Reqs, ok \in BOOLEAN : CommentReturn(r, ok)
  \/ \E r \in Reqs : PersistCall(r)
  \/ \E r \in Reqs, ok \in BOOLEAN : PersistReturn(r, ok)

Spec == Init /\ [][Next]_vars

\* ------------------------------------- the signature check on its own
\* The handlers that check a signature at all.
VerifyingHandlers == {HandlerRefactored, HandlerCmd, HandlerMono}

ProbeBodies == CoreBodies \cup BigBodies
ProbeSigned == ProbeBodies \cup {LimitRead(b, maxSize) : b \in ProbeBodies}

InitVerify ==
  /\ handler \in VerifyingHandlers
  /\ secret \in SenderKeys
  /\ req = [r \in Reqs |-> IdleReq]
  /\ task = [r \in Reqs |-> NoTask]
  /\ store = <<>>
  /\ probe = NoProbe
  /\ closed = [r \in Reqs |-> "open"]

\* One delivery of body "sent" carrying the hex HMAC of "over" under the
\* configured secret, with or without the "sha256=" prefix.
VerifyProbe(sent, over, prefixed) ==
  /\ LET hd == IF prefixed THEN Signed(secret, over) ELSE Unprefixed(secret, over)
         res == Handle(handler, Request("POST", "issues", sent, hd, FALSE), secret)
     IN probe' = [fn |-> "verify", sent |-> sent, over |-> over, prefixed |-> prefixed,
                  accepted |-> res.status # StatusUnauthorized]
  /\ UNCHANGED <<handler, secret, req, task, store, closed>>

NextVerify ==
  \E sent \in ProbeBodies, over \in ProbeSigned, prefixed \in BOOLEAN :
    VerifyProbe(sent, over, prefixed)

SpecVerify == InitVerify /\ [][NextVerify]_vars

\* ------------------------------------------------------------- claims
\* What the deployed handler did with request r.
Did(r) == Handle(handler, req[r].in, secret)
\* Request r has been handled and its body reached the handler whole.
Arrived(r) == req[r].pc # "idle" /\ ~req[r].in.readErr
\* The bytes the handler takes as the body.
Received(h, body) == IF h = HandlerRefactored THEN LimitRead(body, maxSize) ELSE body
\* The header of r carries the hex HMAC of the received bytes under the secret.
SigValid(r) ==
  /\ secret # ""
  /\ req[r].in.header.present
  /\ req[r].in.header.rest = HexEncode(Hmac(secret, Received(handler, req[r].in.body)))
SigAbsent(r) == ~req[r].in.header.present \/ req[r].in.header.rest = EmptySig
WholeJson(payload) == payload.doc.wf /\ payload.jsonLen <= payload.len

C3_VerifyExact ==
  probe.fn = "verify"
    => LET B == Received(handler, probe.sent)
       IN /\ probe.over = B => probe.accepted
          /\ probe.over # B => ~probe.accepted

C3_Witness ==
  /\ probe.fn = "verify"
  /\ handler = HandlerCmd
  /\ probe.sent = FirstBody
  /\ probe.over = SmallBody(Malformed)
  /\ ~probe.accepted

\* C4: in every handler, an event is handed on (to event processing or to a
\* pipeline task) only when the request's signature has been verified.
C4_ProcessedOnlyVerified ==
  \A r \in Reqs :
    (req[r].pc # "idle" /\ (Did(r).processed \/ Did(r).spawn)) => SigValid(r)

\* C5: a POST with a valid signature and a body that decodes as an event of a
\* known kind is answered 202 and nothing else, opened issue or not, and
\* wherever the pipeline task stands or has ended.
C5_AcceptedIs202 ==
  \A r \in Reqs :
    (handler \in VerifyingHandlers /\ Arrived(r) /\ req[r].in.method = "POST"
       /\ SigValid(r) /\ req[r].in.kind \in KnownKinds
       /\ WholeJson(Received(handler, req[r].in.body)))
    => /\ req[r].status \in {0, StatusAccepted}
       /\ req[r].status = 0 => req[r].pc = "respond"
       /\ req[r].pc = "done" => req[r].status = StatusAccepted

C5_Witness ==
  \E r, q \in Reqs :
    /\ handler = HandlerRefactored
    /\ req[r].in.body = FirstBody /\ SigValid(r)
    /\ req[r].status = StatusAccepted
    /\ task[r].pc = "error_embed"
    /\ req[q].in.kind = "push" /\ SigValid(q)
    /\ req[q].status = StatusAccepted
    /\ task[q].pc = "none"

\* C6: a correctly signed request whose kind is not the issue event, or whose
\* action is not "opened", is never answered 400 (it is acknowledged) and
\* causes no task and no embed, search, comment or persist call.
C6_NotApplicableNotError ==
  \A r \in Reqs :
    (handler = HandlerRefactored /\ Arrived(r) /\ req[r].in.method = "POST"
       /\ SigValid(r)
       /\ \/ req[r].in.kind # "issues"
          \/ /\ WholeJson(Received(handler, req[r].in.body))
             /\ req[r].in.body.doc.action # "opened")
    => /\ req[r].status \in {0, StatusAccepted}
       /\ task[r] = NoTask

\* C7: a request of the issue kind that passes the signature check and whose
\* body does not decode is answered 400, and no task is spawned.
C7_MalformedIs400 ==
  \A r \in Reqs :
    (handler \in VerifyingHandlers /\ Arrived(r) /\ req[r].in.method = "POST"
       /\ SigValid(r) /\ req[r].in.kind = "issues"
       /\ ~WholeJson(Received(handler, req[r].in.body)))
    => /\ req[r].status = StatusBadRequest
       /\ ~Did(r).spawn
       /\ task[r] = NoTask

C7_Witness ==
  \E r \in Reqs :
    /\ handler = HandlerRefactored
    /\ req[r].in.method = "POST"
    /\ req[r].in.kind = "issues"
    /\ req[r].in.body = SmallBody(Malformed)
    /\ SigValid(r)
    /\ req[r].status = StatusBadRequest

\* C8: a request whose method is not POST is answered 405; its body is not
\* read, its signature is not checked and no task is spawned.
C8_NonPostIs405 ==
  \A r \in Reqs :
    (handler \in {HandlerRefactored, HandlerMono} /\ req[r].pc # "idle"
       /\ req[r].in.method # "POST")
    => /\ req[r].status = StatusMethodNotAllowed
       /\ ~Did(r).read
       /\ Did(r).hashed = NoBody
       /\ task[r] = NoTask

\* C9 as stated: in every interleaving, the 202 of an accepted request has been
\* issued before any embed, search, comment or persist work begins for it.
C9_AckBeforeWork ==
  \A r \in Reqs :
    (handler = HandlerRefactored /\ task[r].pc \notin {"none", "start"})
    => req[r].status = StatusAccepted

\* C9 amended: pipeline work for a request begins only once its handler has
\* verified, parsed and spawned, with nothing left to do but write the 202; the
\* 202 is written without waiting for the task, which may already be running.
C9_AckNotBlockedByWork ==
  \A r \in Reqs :
    (handler = HandlerRefactored /\ task[r].pc # "none")
    => /\ SigValid(r)
       /\ \/ req[r].pc = "respond" /\ req[r].status = 0 /\ ENABLED WriteHeader(r)
          \/ req[r].pc = "done" /\ req[r].status = StatusAccepted

C9_Witness ==
  \E r \in Reqs :
    /\ handler = HandlerRefactored
    /\ task[r].pc = "embedding"
    /\ task[r].calls.embed = 1
    /\ req[r].pc = "respond"
    /\ req[r].status = 0

\* C10: when the embedding call fails (transport error, non-200 status, reply
\* that does not decode, or empty prediction list) the run halts there: no
\* search, comment or persist call is made for that event.
EmbedFailed(resp) ==
  \/ ~resp.transport
  \/ resp.status # 200
  \/ ~resp.json
  \/ resp.predictions = <<>>

C10_EmbedFailureHalts ==
  \A r \in Reqs :
    (task[r].resp # NoResponse /\ EmbedFailed(task[r].resp))
    => /\ task[r].pc = "error_embed"
       /\ task[r].calls.search = 0
       /\ task[r].calls.comment = 0
       /\ task[r].calls.persist = 0
       /\ ~ENABLED SearchCall(r)

C10_Witness ==
  \E r \in Reqs :
    /\ task[r].resp = EmbedResponse(TRUE, 200, TRUE, <<>>)
    /\ task[r].pc = "error_embed"
    /\ task[r].calls.embed = 1
    /\ req[r].status = StatusAccepted

\* C11: when the search call of a run fails (at query start or while reading a
\* row) the run goes on with an empty candidate list: no comment is posted, the
\* persist call is still made, and no row read before the failure is used.
C11_SearchFailureDegrades ==
  \A r \in Reqs :
    (task[r].fn = "handleIssue" /\ task[r].searchErr)
    => /\ task[r].ids = <<>> /\ task[r].dists = <<>>
       /\ task[r].msg = NoComment
       /\ task[r].calls.comment = 0
       /\ task[r].pc \in {"persist", "persisting", "done", "error_persist"}
       /\ task[r].pc = "persist" => ENABLED PersistCall(r)
       /\ task[r].pc # "persist" => task[r].calls.persist = 1

C11_Witness ==
  \E r \in Reqs :
    /\ task[r].searchErr
    /\ task[r].pc = "persisting"
    /\ task[r].calls.persist = 1
    /\ task[r].calls.comment = 0
    /\ Len(store) = 1

\* The embedding step of run r returned a vector.
EmbedSucceeded(r) == task[r].resp # NoResponse /\ ~EmbedFailed(task[r].resp)
\* The run of r can take a step.
CanStep(r) ==
  \/ ENABLED SearchCall(r)
  \/ ENABLED (\E outcome \in SearchOutcomes :
                \E rank \in Rankings(store, task[r].vec, TopK) : SearchReturn(r, outcome, rank))
  \/ ENABLED CommentCall(r)
  \/ ENABLED (\E ok \in BOOLEAN : CommentReturn(r, ok))
  \/ ENABLED PersistCall(r)
  \/ ENABLED (\E ok \in BOOLEAN : PersistReturn(r, ok))

\* C12: in every run whose embedding succeeded the persist call is made exactly
\* once, after the comment step, whether that step was skipped, succeeded or
\* failed: never twice, never before the comment step is over, and the run
\* neither ends nor stops before it.
C12_PersistOnceAfterComment ==
  \A r \in Reqs :
    (task[r].fn = "handleIssue" /\ EmbedSucceeded(r))
    => /\ task[r].calls.persist <= 1
       /\ task[r].calls.persist = 1
            <=> task[r].pc \in {"persisting", "done", "error_persist"}
       /\ task[r].calls.persist = 1
            => \/ task[r].msg = NoComment /\ task[r].calls.comment = 0
               \/ task[r].msg # NoComment /\ task[r].calls.comment = 1
       /\ task[r].pc \notin {"done", "error_persist"} => CanStep(r)

C12_Witness ==
  \E r \in Reqs :
    /\ task[r].fn = "handleIssue"
    /\ EmbedSucceeded(r)
    /\ task[r].calls.comment = 1
    /\ ~task[r].posted
    /\ task[r].calls.persist = 1
    /\ task[r].pc = "done"

\* C13: within one task the remote calls go in the order embed, search,
\* comment, persist; each starts only after the one before it has returned, and
\* the comment call and the persist call of one event are never in flight
\* together.
C13_CallsSequential ==
  \A r \in Reqs :
    task[r].fn = "handleIssue"
    => /\ Cardinality(task[r].inflight) <= 1
       /\ ~({"comment", "persist"} \subseteq task[r].inflight)
       /\ task[r].calls.search > 0
            => task[r].calls.embed = 1 /\ "embed" \notin task[r].inflight
       /\ task[r].calls.comment > 0
            => task[r].calls.search = 1 /\ "search" \notin task[r].inflight
       /\ task[r].calls.persist > 0
            => /\ task[r].calls.search = 1
               /\ task[r].inflight \subseteq {"persist"}

C13_Witness ==
  \E r \in Reqs :
    /\ task[r].fn = "handleIssue"
    /\ task[r].calls = [embed |-> 1, search |-> 1, comment |-> 1, persist |-> 1]
    /\ task[r].inflight = {"persist"}

\* C14: the comment call is made in a run only if the decider produced text,
\* and at most once; a failed posting leaves the decision as it was and is not
\* followed by a second attempt.
C14_CommentOnlyIfTextOnce ==
  \A r \in Reqs :
    /\ task[r].calls.comment <= 1
    /\ task[r].calls.comment = 1 => task[r].msg.text
    /\ task[r].msg = NoComment => task[r].calls.comment = 0
    /\ (task[r].fn = "handleIssue" /\ task[r].calls.search = 1
          /\ "search" \notin task[r].inflight)
       => task[r].msg = buildComment(Similarity, task[r].ids, task[r].dists)
    /\ (task[r].calls.comment = 1 /\ "comment" \notin task[r].inflight)
       => task[r].pc \notin {"comment", "commenting"}

C14_Witness ==
  \E r \in Reqs :
    /\ task[r].fn = "handleIssue"
    /\ task[r].msg.text
    /\ task[r].calls.comment = 1
    /\ ~task[r].posted
    /\ task[r].pc = "persist"

\* ------------------------------------------------ the decider on its own
\* Distances 0.05, 0.18, 0.20, 0.25 and 0.30; id lists #10, #11, ... and #5.
DistValues == {500, 1800, 2000, 2500, 3000}
DistSeqs == UNION {[1..n -> DistValues] : n \in 0..MaxCand}
IdSeqs == {[i \in 1..n |-> 9 + i] : n \in 0..MaxCand} \cup {<<5>>}
Thresholds == {Similarity, Similarity \div 2}

InitDecide ==
  /\ handler = HandlerMono
  /\ secret = "s3cr3t"
  /\ req = [r \in Reqs |-> IdleReq]
  /\ task = [r \in Reqs |-> NoTask]
  /\ store = <<>>
  /\ probe = NoProbe
  /\ closed = [r \in Reqs |-> "open"]

\* msg := buildComment(cfg, ids, dists)
DecideProbe(variant, threshold, ids, dists) ==
  /\ probe = NoProbe
  /\ probe' = [fn |-> "decide", variant |-> variant, threshold |-> threshold,
               ids |-> ids, dists |-> dists,
               first |-> Decide(variant, threshold, ids, dists),
               second |-> [panic |-> FALSE, out |-> NoComment]]
  /\ UNCHANGED <<handler, secret, req, task, store, closed>>

\* Variant: the text builder is shared between calls and keeps the first listing.
DecideAgain_SharedBuilder ==
  /\ probe.fn = "decide"
  /\ LET again == Decide(probe.variant, probe.threshold, probe.ids, probe.dists)
     IN probe' = [probe EXCEPT !.fn = "decide2",
                               !.second = [again EXCEPT !.out.listed =
                                             probe.first.out.listed \o @]]
  /\ UNCHANGED <<handler, secret, req, task, store, closed>>

\* The same call once more, with the same arguments.
DecideAgain ==
  /\ probe.fn = "decide"
  /\ probe' = [probe EXCEPT !.fn = "decide2",
                            !.second = Decide(probe.variant, probe.threshold,
                                              probe.ids, probe.dists)]
  /\ UNCHANGED <<handler, secret, req, task, store, closed>>

NextDecide ==
  \/ \E variant \in Deciders, threshold \in Thresholds, ids \in IdSeqs, dists \in DistSeqs :
       DecideProbe(variant, threshold, ids, dists)
  \/ DecideAgain

SpecDecide == InitDecide /\ [][NextDecide]_vars

\* The decider has been applied to a candidate sequence (as many distances as ids).
DecidedPairs == probe.fn \in {"decide", "decide2"} /\ Len(probe.ids) = Len(probe.dists)

\* C15: the decider returns no comment whenever the candidate sequence is empty
\* or its first distance exceeds the threshold, and a comment otherwise;
\* [(#5, 0.30)] with threshold 0.20 gives no comment.
C15_NoCommentRule ==
  DecidedPairs
    => /\ ~probe.first.panic
       /\ probe.first.out = NoComment
            <=> (Len(probe.ids) = 0 \/ probe.dists[1] > probe.threshold)
       /\ probe.first.out # NoComment => probe.first.out.text

C15_Witness ==
  /\ probe.fn = "decide"
  /\ probe.ids = <<5>>
  /\ probe.dists = <<3000>>
  /\ probe.threshold = 2000
  /\ probe.first.out = NoComment

\* The length of the longest prefix of dists in which every distance is within
\* the threshold.
PrefixWithin(threshold, dists) ==
  CHOOSE n \in 0..Len(dists) :
    /\ \A i \in 1..n : dists[i] <= threshold
    /\ n < Len(dists) => dists[n + 1] > threshold
ListedIds(out) == [j \in 1..Len(out.listed) |-> out.listed[j].id]

\* C16: for every candidate sequence and threshold the candidates listed are
\* exactly the longest prefix whose every distance is <= threshold, in input
\* order; a candidate after the first violation is not listed even when its own
\* distance is within the threshold.  [(#10, 0.05), (#11, 0.18), (#12, 0.25)]
\* with threshold 0.20 lists #10 and #11 only.
C16_LongestPrefix ==
  DecidedPairs
    => /\ ~probe.first.panic
       /\ ListedIds(probe.first.out)
            = SubSeq(probe.ids, 1, PrefixWithin(probe.threshold, probe.dists))

C16_Witness ==
  /\ probe.fn = "decide"
  /\ probe.ids = <<10, 11, 12>>
  /\ probe.dists = <<500, 1800, 2500>>
  /\ probe.threshold = 2000
  /\ ListedIds(probe.first.out) = <<10, 11>>

\* C17: every comment the decider produces lists at least one candidate: for
\* all id lists and distance lists, of equal length or not, a non-empty text is
\* returned only if at least one candidate within the threshold is listed in it.
C17_CommentListsCandidate ==
  probe.fn \in {"decide", "decide2"}
    => (probe.first.out.text
          => /\ Len(probe.first.out.listed) >= 1
             /\ \A j \in 1..Len(probe.first.out.listed) :
                  probe.dists[j] <= probe.threshold)

C19_NoMissingVector ==
  \A r \in Reqs :
    task[r].fn = "handleIssue"
    => /\ (task[r].calls.search > 0 \/ task[r].calls.persist > 0) => task[r].vec # 0
       /\ task[r].resp = EmbedResponse(TRUE, 200, TRUE, <<0>>)
            => task[r].pc = "error_embed"

\* --------------------------------------- requests that end under a task
DetachHandlers == {HandlerRefactored, HandlerCmd, HandlerMono}
DetachInputs ==
  {Request("POST", "issues", FirstBody, Signed("s3cr3t", FirstBody), FALSE),
   Request("POST", "issues", FirstBody, NoHeader, FALSE)}

InitDetach ==
  /\ handler \in DetachHandlers
  /\ secret = "s3cr3t"
  /\ req = [r \in Reqs |-> IdleReq]
  /\ task = [r \in Reqs |-> NoTask]
  /\ store = <<>>
  /\ probe = NoProbe
  /\ closed = [r \in Reqs |-> "open"]

\* The inbound request of r ends: the client goes away or the handler has
\* returned, and r.Context() is cancelled.
CloseRequest(r) ==
  /\ req[r].pc # "idle"
  /\ closed[r] = "open"
  /\ closed' = [closed EXCEPT ![r] = task[r].pc]
  /\ UNCHANGED <<handler, secret, req, task, store, probe>>

NextDetach ==
  \/ \E r \in Reqs, rq \in DetachInputs : Serve(r, rq)
  \/ \E r \in Reqs : WriteHeader(r)
  \/ \E r \in Reqs : CloseRequest(r)
  \/ \E r \in Reqs : EmbedCall(r)
  \/ \E r \in Reqs, resp \in EmbedResponses : EmbedReturn(r, resp)
  \/ \E r \in Reqs : SearchCall(r)
  \/ \E r \in Reqs, outcome \in SearchOutcomes :
       \E rank \in Rankings(store, task[r].vec, TopK) : SearchReturn(r, outcome, rank)
  \/ \E r \in Reqs : ProcessIssueLocal(r)
  \/ \E r \in Reqs : CommentCall(r)
  \/ \E r \in Reqs, ok \in BOOLEAN : CommentReturn(r, ok)
  \/ \E r \in Reqs : PersistCall(r)
  \/ \E r \in Reqs, ok \in BOOLEAN : PersistReturn(r, ok)

SpecDetach == InitDetach /\ [][NextDetach]_vars

TerminalPcs == {"none", "done", "error_embed", "error_persist"}

\* C20: the task is detached from the request: the end or cancellation of the
\* inbound request, before or after the 202, never cancels the task spawned
\* for it; none of its calls returns a context error and it can always run on
\* until it is done or has failed on its own.
C20_TaskDetached ==
  \A r \in Reqs :
    (closed[r] # "open" /\ task[r].pc # "none")
    => /\ ~task[r].ctxErr
       /\ ~ContextDone(r)
       /\ task[r].pc \notin TerminalPcs
            => \/ CanStep(r)
               \/ ENABLED EmbedCall(r)
               \/ ENABLED (\E resp \in EmbedResponses : EmbedReturn(r, resp))
               \/ ENABLED ProcessIssueLocal(r)

C20_Witness ==
  \E r \in Reqs :
    /\ handler = HandlerRefactored
    /\ closed[r] = "embedding"
    /\ req[r].pc = "respond"
    /\ task[r].pc = "persisting"
    /\ ~task[r].searchErr
    /\ ~task[r].ctxErr

\* ------------------------------------------- calls that are never answered
\* The pipeline under the scheduling the runtime gives it: a goroutine that can
\* take a step of its own takes it, and the HTTP server writes its answer.  The
\* answers of the remote collaborators are theirs to give: nothing makes the
\* embedding endpoint, the query job, the comment API or the insert respond.
NextLive ==
  \/ \E r \in Reqs, rq \in DetachInputs : Serve(r, rq)
  \/ \E r \in Reqs : WriteHeader(r)
  \/ \E r \in Reqs : EmbedCall(r)
  \/ \E r \in Reqs, resp \in EmbedResponses : EmbedReturn(r, resp)
  \/ \E r \in Reqs : SearchCall(r)
  \/ \E r \in Reqs, outcome \in SearchOutcomes :
       \E rank \in Rankings(store, task[r].vec, TopK) : SearchReturn(r, outcome, rank)
  \/ \E r \in Reqs : ProcessIssueLocal(r)
  \/ \E r \in Reqs : CommentCall(r)
  \/ \E r \in Reqs, ok \in BOOLEAN : CommentReturn(r, ok)
  \/ \E r \in Reqs : PersistCall(r)
  \/ \E r \in Reqs, ok \in BOOLEAN : PersistReturn(r, ok)

\* The steps the program takes by itself.
OwnStep(r) ==
  \/ WriteHeader(r)
  \/ EmbedCall(r)
  \/ SearchCall(r)
  \/ ProcessIssueLocal(r)
  \/ CommentCall(r)
  \/ PersistCall(r)

SpecLive ==
  /\ InitDetach
  /\ [][NextLive]_vars
  /\ \A r \in Reqs : WF_vars(OwnStep(r))

\* C21: every remote call of a task is bounded by a deadline: a task with a
\* call in flight eventually leaves it and ends done or in error, also when
\* the collaborator never responds.
C21_CallsBounded ==
  \A r \in Reqs :
    (task[r].inflight # {}) ~> (task[r].pc \in {"done", "error_embed", "error_persist"})

\* The run of r has searched and decided.
Decided(r) ==
  /\ task[r].fn = "handleIssue"
  /\ task[r].pc \in {"comment", "commenting", "persist", "persisting", "done", "error_persist"}
\* Every other task of the run is for another issue than that of r.
OthersDiffer(r) ==
  \A q \in Reqs \ {r} : task[q].pc # "none" => task[q].evt # task[r].evt
\* What the search of r returns from the table as it was before any task of the
\* run had written to it.
SearchAlone(r) == SearchSimilarIssues(<<>>, task[r].vec, <<>>, "ok")
\* The result of r is that of a successful search of the first n rows.
SearchedPrefix(r, n) ==
  \E rank \in Rankings(SubSeq(store, 1, n), task[r].vec, TopK) :
    LET res == SearchSimilarIssues(SubSeq(store, 1, n), task[r].vec, rank, "ok")
    IN task[r].ids = res.ids /\ task[r].dists = res.dists

\* C22 (as stated): tasks for different issues are fully independent: what a
\* task decides and comments is the same in every interleaving with the other
\* tasks, so it is what the task decides when it runs before all of them;
\* whether it comments does not depend on another task having persisted.
C22_TasksIndependent ==
  \A r \in Reqs :
    Decided(r) /\ ~task[r].searchErr /\ OthersDiffer(r)
      => task[r].msg = buildComment(Similarity, SearchAlone(r).ids, SearchAlone(r).dists)

\* C22 (amended): tasks meet only in the table.  The vector of a task is that
\* of its own embedding reply, its candidates are a search result for its own
\* vector over the rows the table held when its search ran (a prefix of the
\* rows, which are only appended), its decision is the decider's on those
\* candidates, and the row it persists is made of its own event and vector.
C22_TasksMeetOnlyInTable ==
  \A r \in Reqs :
    Decided(r)
      => /\ task[r].vec = CreateEmbedding(task[r].resp).vec
         /\ IF task[r].searchErr
              THEN task[r].ids = <<>> /\ task[r].dists = <<>>
              ELSE \E n \in 0..Len(store) : SearchedPrefix(r, n)
         /\ task[r].msg = buildComment(Similarity, task[r].ids, task[r].dists)
         /\ task[r].pc = "done"
              => \E i \in 1..Len(store) :
                   store[i] = Row(task[r].evt, task[r].evt.repo, task[r].vec)

\* A task comments on a candidate that a task for another issue persisted
\* while it was running: had its search run first, it would not have commented.
C22_Witness ==
  \E r \in Reqs :
    /\ Decided(r) /\ ~task[r].searchErr /\ OthersDiffer(r)
    /\ task[r].msg.text
    /\ task[r].pc = "done"
    /\ \E q \in Reqs \ {r} : task[q].pc = "done" /\ task[q].calls.persist = 1

\* The runs of handleIssue whose insert has succeeded.
Persisted(r) == task[r].fn = "handleIssue" /\ task[r].pc = "done"
\* The row the run of r hands to the insert.
RowOf(r) == Row(task[r].evt, task[r].evt.repo, task[r].vec)
RowsEqual(x) == {i \in 1..Len(store) : store[i] = x}
RunsPersisting(x) == {r \in Reqs : Persisted(r) /\ RowOf(r) = x}

\* C23: persistence only inserts.  The table holds one row per run whose insert
\* succeeded, each as that run wrote it: an issue accepted and persisted n
\* times has n rows, and no insert has updated or removed a row.
C23_InsertOnly ==
  /\ Len(store) = Cardinality({r \in Reqs : Persisted(r)})
  /\ \A r \in Reqs :
       Persisted(r) => Cardinality(RowsEqual(RowOf(r))) = Cardinality(RunsPersisting(RowOf(r)))

\* The same delivery was accepted twice, both runs embedded and inserted (with
\* different vectors), and the issue has two rows.
C23_Witness ==
  /\ \A r \in Reqs : Persisted(r) /\ task[r].evt = FirstBody.doc
  /\ task[1].vec # task[2].vec
  /\ Len(store) = 2
  /\ \A i \in 1..2 : store[i].repo = "acme/app" /\ store[i].issue_id = 1

\* --------------------------------------------- the vector store on its own
\* The two queries of internal/storage/bigquery.go.
QueryFiltered == "VECTOR_SEARCH_DISTANCE ... WHERE VECTOR_SEARCH_COSINE_DISTANCE <= 2.0"
QueryPlain == "ML.DISTANCE(embedding, @query_vec, 'COSINE')"
Queries == {QueryFiltered, QueryPlain}

\* vector_search.distance_type of the configuration
Metrics == {"COSINE", "DOT_PRODUCT", "EUCLIDEAN"}

\* The vectors of the store probes: the points of Vectors and their opposites
\* (-v points the other way than v).
SignedVectors == (0 - MaxVec)..MaxVec
\* The cosine distance as the engine computes it, in 1/10000: Distance on
\* vectors of the same side, and up to 2.0 for opposite ones, where the
\* floating-point quotient may come out one unit beyond -1 (ulp).
CosineComputed(v, w, ulp) ==
  IF v * w >= 0 THEN Distance(v, w)
  ELSE IF v = 0 - w THEN 20000 + ulp
  ELSE 20000 - Distance(v, 0 - w)

\* WHERE VECTOR_SEARCH_COSINE_DISTANCE(embedding, @query_vec) <= 2.0
Ceiling == 20000
Admitted(query, ds) == {i \in DOMAIN ds : query = QueryPlain \/ ds[i] <= Ceiling}

\* ORDER BY dist LIMIT k over the rows the WHERE clause lets through.
RankingsAmong(ds, adm, k) ==
  LET n == Min(k, Cardinality(adm))
  IN {s \in [1..n -> adm] :
        /\ \A i, j \in 1..n : i # j => s[i] # s[j]
        /\ \A i, j \in 1..n : i < j => ds[s[i]] <= ds[s[j]]
        /\ \A i \in 1..n : \A x \in adm :
             (\A j \in 1..n : s[j] # x) => ds[s[i]] <= ds[x]}

\* The metric the query computes distances with: both queries name COSINE.
QueryMetric(query, configured) == "COSINE"
\* CREATE VECTOR INDEX ... distance_type = cfg.GCP.VectorSearch.Distance
IndexMetric(configured) == configured

\* BQClient.SearchSimilarIssues(ctx, vec, topK) on a table, with the order the
\* iterator yields the rows in; the query fails on a vector without values.
RunSearch(query, rows, vec, k, ulp, rank) ==
  LET ds == [i \in 1..Len(rows) |-> CosineComputed(rows[i].embedding, vec, ulp)]
  IN IF Len(rows) > 0 /\ ~Comparable(rows, vec)
       THEN [ids |-> <<>>, dists |-> <<>>, picked |-> <<>>, err |-> TRUE]
       ELSE [ids |-> [i \in 1..Len(rank) |-> rows[rank[i]].issue_id],
             dists |-> [i \in 1..Len(rank) |-> ds[rank[i]]],
             picked |-> rank, err |-> FALSE]

MaxRows == 2
StoreRows ==
  {Row(IssueDoc("opened", p, n), p, v) : p \in {"acme/app"}, n \in 1..(MaxIssue + 1),
                                         v \in SignedVectors}
Tables == UNION {[1..n -> StoreRows] : n \in 0..MaxRows}
Limits == {1, TopK}

InitSearch ==
  /\ handler = HandlerRefactored
  /\ secret = "s3cr3t"
  /\ req = [r \in Reqs |-> IdleReq]
  /\ task = [r \in Reqs |-> NoTask]
  /\ store \in Tables
  /\ probe = NoProbe
  /\ closed = [r \in Reqs |-> "open"]

\* One search of the table as it stands.
SearchProbe(query, configured, vec, k, ulp) ==
  /\ probe = NoProbe
  /\ LET ds == [i \in 1..Len(store) |-> CosineComputed(store[i].embedding, vec, ulp)]
     IN \E rank \in RankingsAmong(ds, Admitted(query, ds), k) :
          probe' = [fn |-> "search", query |-> query, configured |-> configured,
                    index |-> IndexMetric(configured),
                    used |-> QueryMetric(query, configured),
                    vec |-> vec, k |-> k, ds |-> ds, inserted |-> 0,
                    res |-> RunSearch(query, store, vec, k, ulp, rank)]
  /\ UNCHANGED <<handler, secret, req, task, store, closed>>

\* InsertIssueVector of a row with vector vec, then one search with vec.
RoundTripProbe(query, configured, doc, vec, k, ulp) ==
  /\ probe = NoProbe
  /\ store' = InsertIssueVector(store, doc, doc.repo, vec)
  /\ LET ds == [i \in 1..Len(store') |-> CosineComputed(store'[i].embedding, vec, ulp)]
     IN \E rank \in RankingsAmong(ds, Admitted(query, ds), k) :
          probe' = [fn |-> "roundtrip", query |-> query, configured |-> configured,
                    index |-> IndexMetric(configured),
                    used |-> QueryMetric(query, configured),
                    vec |-> vec, k |-> k, ds |-> ds, inserted |-> Len(store'),
                    res |-> RunSearch(query, store', vec, k, ulp, rank)]
  /\ UNCHANGED <<handler, secret, req, task, closed>>

NextSearch ==
  \/ \E query \in Queries, configured \in Metrics, vec \in SignedVectors,
        k \in Limits, ulp \in {0, 1} : SearchProbe(query, configured, vec, k, ulp)
  \/ \E query \in Queries, configured \in Metrics, vec \in SignedVectors,
        k \in Limits, ulp \in {0, 1} :
       \E n \in 1..(MaxIssue + 1) :
         RoundTripProbe(query, configured, IssueDoc("opened", "acme/app", n), vec, k, ulp)

SpecSearch == InitSearch /\ [][NextSearch]_vars

\* A search that returned rows or none, without an error.
Searched == probe.fn \in {"search", "roundtrip"} /\ ~probe.res.err

\* C24: a search returns at most K rows in ascending order of distance, the K
\* stored rows nearest to the query vector, and its query has no distance
\* ceiling: no stored row is left out because its distance is large (with
\* fewer than K rows stored, all of them are returned).
C24_NearestNoCeiling ==
  Searched =>
    LET out == probe.res.picked
        ds == probe.ds
    IN /\ Len(out) = Min(probe.k, Len(ds))
       /\ \A i, j \in 1..Len(out) : i < j => ds[out[i]] <= ds[out[j]]
       /\ \A x \in 1..Len(ds) :
            (\A j \in 1..Len(out) : out[j] # x)
              => \A i \in 1..Len(out) : ds[out[i]] <= ds[x]

\* C25: whatever metric is configured (COSINE, DOT_PRODUCT, EUCLIDEAN), the
\* search query computes its distances with the configured metric, which is
\* the metric the vector index is created with.
C25_QueryUsesConfiguredMetric ==
  probe.fn \in {"search", "roundtrip"}
    => probe.used = probe.configured /\ probe.used = probe.index

\* C26: after a row with vector v has been inserted, a search with the same
\* vector v returns that row as its first candidate, with distance 0.
C26_RoundTrip ==
  probe.fn = "roundtrip"
    => /\ ~probe.res.err
       /\ Len(probe.res.ids) >= 1
       /\ probe.res.ids[1] = store[probe.inserted].issue_id
       /\ probe.res.dists[1] = 0

\* ------------------------------------------------ start-up and the secret
\* Deliveries of one issue: unsigned, signed with the empty key, signed with
\* the secret of the webhook configuration, and signed with another key.
StartInputs ==
  {Request("POST", "issues", FirstBody, h, FALSE)
     : h \in {NoHeader, Signed("", FirstBody), Signed("s3cr3t", FirstBody),
              Signed("forged", FirstBody)}}

\* Every entry point, started with the secret set or unset.
InitStart ==
  /\ handler \in Handlers
  /\ secret \in Secrets
  /\ req = [r \in Reqs |-> IdleReq]
  /\ task = [r \in Reqs |-> NoTask]
  /\ store = <<>>
  /\ probe = NoProbe
  /\ closed = [r \in Reqs |-> "open"]

NextStart ==
  \/ \E r \in Reqs, rq \in StartInputs : Serve(r, rq)
  \/ \E r \in Reqs : WriteHeader(r)

SpecStart == InitStart /\ [][NextStart]_vars

\* C27: the secret is non-empty whenever the service takes requests: with an
\* empty secret the process does not start serving, so no request has its
\* signature computed and compared under an empty key, and none is accepted.
C27_SecretNonEmpty ==
  \A r \in Reqs :
    req[r].pc # "idle" /\ (Did(r).hashed # NoBody \/ Did(r).status = StatusAccepted)
      => secret # ""

\* C28: the bytes the HMAC is computed over and the bytes handed to the parser
\* are the body exactly as it was received, whatever its length: never a
\* truncated or rewritten copy of what the sender sent.
C28_BytesAsReceived ==
  \A r \in Reqs :
    Arrived(r)
      => /\ Did(r).hashed \in {NoBody, req[r].in.body}
         /\ Did(r).parsed \in {NoBody, req[r].in.body}

\* The task of r can make or finish a call.
TaskCanMove(r) ==
  \/ ENABLED EmbedCall(r)
  \/ ENABLED (\E resp \in EmbedResponses : EmbedReturn(r, resp))
  \/ ENABLED ProcessIssueLocal(r)
  \/ CanStep(r)

\* C29: no remote call is retried.  In one run each of embed, search, comment
\* and persist is made at most once; a run whose insert failed has ended: it
\* has no call in flight and makes no further call, none that would take back
\* the comment it posted either.
C29_NoRetry ==
  \A r \in Reqs :
    /\ \A c \in {"embed", "search", "comment", "persist"} : task[r].calls[c] <= 1
    /\ task[r].pc = "error_persist"
         => /\ task[r].inflight = {}
            /\ ~TaskCanMove(r)
            /\ task[r].posted => task[r].calls.comment = 1

\* A run posted its comment, its insert failed, and it made each call once.
C29_Witness ==
  \E r \in Reqs :
    /\ task[r].pc = "error_persist"
    /\ task[r].posted
    /\ task[r].calls = [embed |-> 1, search |-> 1, comment |-> 1, persist |-> 1]

\* Request r was answered 202 and delivered an issues event with action "opened".
AcceptedOpened(r) ==
  /\ Did(r).status = StatusAccepted
  /\ req[r].in.kind = "issues"
  /\ req[r].in.body.doc.action = "opened"
\* The handlers that start tasks.
SpawningHandlers == {HandlerRefactored, HandlerCmd, HandlerMono}

\* C30: a task is spawned for a request exactly when the request is an accepted
\* issues/opened delivery, one task for each, and for no other request; the
\* handler puts no bound on the tasks in flight: whatever the tasks of earlier
\* requests are doing, the next delivery can be accepted and its task started.
C30_OneTaskPerOpened ==
  \A r \in Reqs :
    /\ req[r].pc = "idle" => task[r].pc = "none"
    /\ req[r].pc # "idle" => (task[r].pc # "none" <=> AcceptedOpened(r))
    /\ (/\ req[r].pc = "idle"
        /\ \A q \in Reqs : q < r => req[q].pc # "idle"
        /\ handler \in SpawningHandlers
        /\ secret = "s3cr3t")
         => ENABLED (\E rq \in ReqInputs : Serve(r, rq) /\ task'[r].pc = "start")

\* As many tasks as requests are in flight at once: each was accepted before
\* any of them had finished, and all are in their embedding call.
C30_Witness ==
  \A r \in Reqs : AcceptedOpened(r) /\ task[r].pc = "embedding"

\* ------------------------------------------ calls that are all answered
\* The answers of the collaborators to the calls of the task of r.
RemoteReturn(r) ==
  \/ \E resp \in EmbedResponses : EmbedReturn(r, resp)
  \/ \E outcome \in SearchOutcomes :
       \E rank \in Rankings(store, task[r].vec, TopK) : SearchReturn(r, outcome, rank)
  \/ \E ok \in BOOLEAN : CommentReturn(r, ok)
  \/ \E ok \in BOOLEAN : PersistReturn(r, ok)

\* The pipeline when every remote call is answered in the end, with a result
\* or with an error.
SpecAnswered ==
  /\ InitDetach
  /\ [][NextLive]_vars
  /\ \A r \in Reqs : WF_vars(OwnStep(r)) /\ WF_vars(RemoteReturn(r))

\* The run of r has ended: done, or failed in the embedding or in the insert.
Ended(r) == task[r].pc \in {"done", "error_embed", "error_persist"}

\* C31: provided every remote call returns, every task ends: it reaches done
\* or an error state, and from then on it has no call in flight and makes none.
C31_TaskTerminates ==
  /\ \A r \in Reqs : (task[r].pc # "none") ~> Ended(r)
  /\ [](\A r \in Reqs : Ended(r) => task[r].inflight = {} /\ ~TaskCanMove(r))

\* Both ends are met in one run of the service: one task has searched and
\* inserted and is done, the other has failed in its embedding call.
C31_Witness ==
  \E r, q \in Reqs :
    /\ task[r].pc = "done" /\ task[r].calls.search = 1 /\ task[r].calls.persist = 1
    /\ task[q].pc = "error_embed" /\ task[q].calls.embed = 1

\* The payload of r, as the handler takes it, is an event the parser decodes.
Parses(r) ==
  req[r].in.kind \in KnownKinds /\ WholeJson(Received(handler, req[r].in.body))

\* C32 (as stated): every request is answered with one status out of 405, 401,
\* 400 and 202, the checks taking precedence in that order: a request that is
\* not a POST gets 405 whatever its signature, a POST with a missing or bad
\* signature gets 401 whatever its body (the parser sees verified bodies
\* only), a verified POST that does not parse gets 400, and any other gets 202.
C32_StatusPrecedence ==
  \A r \in Reqs :
    (handler = HandlerRefactored /\ req[r].pc = "done")
      => /\ req[r].status =
              IF req[r].in.method # "POST" THEN StatusMethodNotAllowed
              ELSE IF ~SigValid(r) THEN StatusUnauthorized
              ELSE IF ~Parses(r) THEN StatusBadRequest
              ELSE StatusAccepted
         /\ Did(r).parsed # NoBody => req[r].in.method = "POST" /\ SigValid(r)

\* C32 (amended): the order is 405, then 400 for a body that cannot be read,
\* then 401, then 400 for a payload that does not parse, then 202.  The status
\* is written once, at the end of the handler; the parser sees verified
\* bodies only, and nothing is hashed or parsed of a body that failed to read.
C32_StatusPrecedenceReadFirst ==
  \A r \in Reqs :
    (handler = HandlerRefactored /\ req[r].pc # "idle")
      => /\ req[r].pc = "respond" => req[r].status = 0 /\ Did(r).status = StatusAccepted
         /\ req[r].pc = "done"
              => /\ req[r].status = Did(r).status
                 /\ req[r].status =
                      IF req[r].in.method # "POST" THEN StatusMethodNotAllowed
                      ELSE IF req[r].in.readErr THEN StatusBadRequest
                      ELSE IF ~SigValid(r) THEN StatusUnauthorized
                      ELSE IF ~Parses(r) THEN StatusBadRequest
                      ELSE StatusAccepted
         /\ Did(r).parsed # NoBody
              => req[r].in.method = "POST" /\ ~req[r].in.readErr /\ SigValid(r)
         /\ req[r].in.readErr => Did(r).hashed = NoBody /\ Did(r).parsed = NoBody

\* A POST whose body failed to read and which carries no signature was
\* answered 400, and a POST of a body that does not decode, with a forged
\* signature, was answered 401.
C32_Witness ==
  \E r, q \in Reqs :
    /\ handler = HandlerRefactored
    /\ req[r].in.method = "POST" /\ req[r].in.readErr /\ req[r].in.header = NoHeader
    /\ req[r].status = StatusBadRequest
    /\ req[q].in.method = "POST" /\ req[q].in.body = SmallBody(Malformed)
    /\ req[q].in.header = Signed("forged", SmallBody(Malformed))
    /\ req[q].status = StatusUnauthorized

StockedTable ==
  <<Row(IssueDoc("opened", "acme/app", 2), "acme/app", 1),
    Row(IssueDoc("opened", "acme/lib", 3), "acme/lib", 1),
    Row(IssueDoc("opened", "acme/app", 4), "acme/app", 1),
    Row(IssueDoc("opened", "acme/app", 5), "acme/app", 2)>>

InitStocked ==
  /\ handler \in DetachHandlers
  /\ secret = "s3cr3t"
  /\ req = [r \in Reqs |-> IdleReq]
  /\ task = [r \in Reqs |-> NoTask]
  /\ store = StockedTable
  /\ probe = NoProbe
  /\ closed = [r \in Reqs |-> "open"]

\* One delivery and its run, on the filled table.
NextStocked ==
  \/ \E rq \in DetachInputs : Serve(1, rq)
  \/ \E r \in Reqs : WriteHeader(r)
  \/ \E r \in Reqs : EmbedCall(r)
  \/ \E r \in Reqs, resp \in EmbedResponses : EmbedReturn(r, resp)
  \/ \E r \in Reqs : SearchCall(r)
  \/ \E r \in Reqs, outcome \in SearchOutcomes :
       \E rank \in Rankings(store, task[r].vec, TopK) : SearchReturn(r, outcome, rank)
  \/ \E r \in Reqs : ProcessIssueLocal(r)
  \/ \E r \in Reqs : CommentCall(r)
  \/ \E r \in Reqs, ok \in BOOLEAN : CommentReturn(r, ok)
  \/ \E r \in Reqs : PersistCall(r)
  \/ \E r \in Reqs, ok \in BOOLEAN : PersistReturn(r, ok)

SpecStocked == InitStocked /\ [][NextStocked]_vars

\* C34: the candidate list handed to the decider never has more than top_k
\* elements, and no comment lists more than top_k candidates.
C34_AtMostTopK ==
  \A r \in Reqs :
    /\ Len(task[r].ids) <= TopK
    /\ Len(task[r].dists) <= TopK
    /\ Len(task[r].msg.listed) <= TopK

\* Of the four stored rows, three of which are at distance 0, a run got top_k
\* candidates and posted a comment listing all of them.
C34_Witness ==
  \E r \in Reqs :
    /\ task[r].fn = "handleIssue"
    /\ Len(store) > TopK
    /\ task[r].calls.search = 1 /\ task[r].calls.persist = 0
    /\ Len(task[r].ids) = TopK
    /\ Len(task[r].msg.listed) = TopK
    /\ task[r].posted

\* The run of r holds the vector of its embedding step.
Embedded(r) ==
  /\ task[r].fn = "handleIssue"
  /\ task[r].pc \in {"search", "searching", "comment", "commenting", "persist",
                     "persisting", "done", "error_persist"}

\* C35: within a run the embedding is produced once and never changed, so the
\* vector given to the insert is the vector given to the search; the event of
\* a run is the one its request delivered and does not change either; and a
\* row enters the table only as the row of a run in its insert call, carrying
\* the repository and issue number of that run's event and that run's vector,
\* whatever the other runs are doing.
C35_VectorAndRowOfRun ==
  [][/\ \A r \in Reqs :
          /\ task'[r].calls.embed <= 1
          /\ Embedded(r) => /\ task'[r].vec = task[r].vec
                            /\ task'[r].evt = task[r].evt
                            /\ task[r].evt = req[r].in.body.doc
     /\ store' # store
          => \E r \in Reqs :
               /\ task[r].pc = "persisting" /\ task'[r].pc = "done"
               /\ task[r].vec = CreateEmbedding(task[r].resp).vec
               /\ store' = Append(store, [repo |-> task[r].evt.repo,
                                          issue_id |-> task[r].evt.number,
                                          embedding |-> task[r].vec])]_vars

\* Two runs for different issues, with different vectors, have both inserted:
\* the table holds the row of each.
C35_Witness ==
  /\ Len(store) = 2
  /\ task[1].evt # task[2].evt
  /\ task[1].vec # task[2].vec
  /\ \A r \in Reqs :
       /\ Persisted(r)
       /\ \E i \in 1..2 : store[i] = [repo |-> task[r].evt.repo,
                                      issue_id |-> task[r].evt.number,
                                      embedding |-> task[r].vec]

\* C36: a comment is posted on the issue that triggered the run: the
\* repository (owner and name) and the issue number given to the comment call
\* are those of the event the request of the run delivered, in every
\* interleaving; a run that has made no comment call has addressed none.
C36_CommentOnOwnIssue ==
  \A r \in Reqs :
    IF task[r].calls.comment = 0 THEN task[r].target = NoTarget
    ELSE /\ task[r].target.repo = req[r].in.body.doc.repo
         /\ task[r].target.number = req[r].in.body.doc.number

\* Two runs for issues of different repositories are in their comment calls at
\* once, each addressed to its own issue.
C36_Witness ==
  /\ \A r \in Reqs : task[r].pc = "commenting"
  /\ task[1].target.repo = "acme/app"
  /\ task[2].target.repo = "acme/lib"
  /\ req[2].in.body.doc.repo = "acme/lib"

\* The issue of run r was delivered once: no other request brought its event.
DeliveredOnce(r) ==
  /\ Decided(r)
  /\ \A q \in Reqs \ {r} : req[q].pc # "idle" => req[q].in.body.doc # task[r].evt
\* The issue numbers the comment of run r lists.
ListedNumbers(r) == {task[r].msg.listed[j].id : j \in 1..Len(task[r].msg.listed)}
\* The rows of the table that were stored for the issue of run r.
OwnRows(r) ==
  {i \in 1..Len(store) :
     store[i].repo = task[r].evt.repo /\ store[i].issue_id = task[r].evt.number}

\* C37: when the webhook of an issue is delivered once, the candidates listed in
\* its comment never include that issue itself (the comment on issue #n never
\* lists #n), the search of the run having completed before the run inserts its
\* own row.
C37_NeverListsItself ==
  \A r \in Reqs :
    DeliveredOnce(r) => task[r].evt.number \notin ListedNumbers(r)

\* The search of a run delivered once never read a row of its own issue: such a
\* row is in the table only after the run's own insert.
SearchBeforeOwnInsert ==
  \A r \in Reqs :
    DeliveredOnce(r) =>
      /\ Cardinality(OwnRows(r)) = (IF task[r].pc = "done" THEN 1 ELSE 0)
      /\ task[r].pc \in {"comment", "commenting"} => OwnRows(r) = {}

\* The issue numbers of the rows stored for a repository.
NumbersOf(repoFull) ==
  {store[i].issue_id : i \in {j \in 1..Len(store) : store[j].repo = repoFull}}

\* C38: every candidate listed in a comment is an issue of the repository of the
\* newly opened issue: the search never returns a row that was stored for a
\* different repository.
C38_SameRepository ==
  \A r \in Reqs :
    Decided(r) =>
      /\ \A i \in 1..Len(task[r].ids) : task[r].ids[i] \in NumbersOf(task[r].evt.repo)
      /\ ListedNumbers(r) \subseteq NumbersOf(task[r].evt.repo)

\* C39: Handler.HandleWebhook reads at most 5 MiB of any request body, and a
\* request whose body is longer than that is never acknowledged with 202 and
\* never spawns a pipeline task.
C39_OversizeNeverAccepted ==
  handler = HandlerRefactored =>
    \A r \in Reqs :
      req[r].pc # "idle" =>
        /\ Received(handler, req[r].in.body).len <= maxSize
        /\ req[r].in.body.len > maxSize =>
             /\ Did(r).status # StatusAccepted
             /\ req[r].status # StatusAccepted
             /\ task[r].pc = "none"

\* The handler never holds more than 5 MiB of a body.
ReadsAtMostMaxSize ==
  handler = HandlerRefactored =>
    \A r \in Reqs :
      req[r].pc # "idle" => Received(handler, req[r].in.body).len <= maxSize

\* What every call of SearchSimilarIssues has handed back: as many distances as
\* ids, and two empty (nil) lists when the search failed.
SearchListsAligned ==
  \A r \in Reqs :
    task[r].fn = "handleIssue" =>
      /\ Len(task[r].ids) = Len(task[r].dists)
      /\ task[r].searchErr => task[r].ids = <<>> /\ task[r].dists = <<>>

\* C40: the search returns an id list and a distance list of equal length in
\* every outcome, both nil on any error, and for any pair of lists, of equal
\* length or not, the decider returns a string without reading the distance
\* list at an index past its end.
C40_ListsAlignedNoOverread ==
  /\ SearchListsAligned
  /\ probe.fn \in {"decide", "decide2"} => ~probe.first.panic

====
